---- MODULE Spec2Model ----
(***************************************************************************)
(* Model of the nextclade workflow of wf/__init__.py: the three tasks      *)
(* get_database, prepare_nextclade_inputs and run_nextclade, the helper    *)
(* _capture_output, and the workflow that maps run_nextclade over the      *)
(* samples.  Texts are sequences of one-character strings, so that string  *)
(* formatting, line splitting and the regular-expression scan are computed *)
(* rather than assumed.  The external nextclade process is the             *)
(* environment: each spawn yields an arbitrary output stream and exit code.*)
(* An element of a stream is a character, or BadByte: a byte sequence that *)
(* the text layer of the pipe cannot decode.                               *)
(***************************************************************************)
EXTENDS Integers, Sequences, FiniteSets, TLC

VARIABLES samples, database_name, pc, db_runs, database, nextclade_inputs,
          tasks, outputs, call

wfvars == <<samples, database_name, pc, db_runs, database, nextclade_inputs,
            tasks, outputs>>
vars == <<samples, database_name, pc, db_runs, database, nextclade_inputs,
          tasks, outputs, call>>

(* ---- bounds of the model ---- *)
MaxSamples == 2
MaxChunks == 2

(* ---- program constants ---- *)
retries == 3

NL == "\n"
CR == "\r"
BadByte == "0xff"

(* ---- literal texts of the source ---- *)
s_nextclade == <<"n","e","x","t","c","l","a","d","e">>
s_dataset == <<"d","a","t","a","s","e","t">>
s_get == <<"g","e","t">>
s_name_flag == <<"-","-","n","a","m","e">>
s_output_dir_flag == <<"-","-","o","u","t","p","u","t","-","d","i","r">>
s_run == <<"r","u","n">>
s_input_dataset_flag == <<"-","-","i","n","p","u","t","-","d","a","t","a","s","e","t">>
s_output_all_flag == <<"-","-","o","u","t","p","u","t","-","a","l","l">>
s_database_prefix == <<"n","e","x","t","c","l","a","d","e","_","d","a","t","a","b","a","s","e","/">>
s_latch_root == <<"l","a","t","c","h",":","/","/","/">>
s_outputs_prefix == <<"l","a","t","c","h",":","/","/","/","n","e","x","t","c","l","a","d","e","_","o","u","t","p","u","t","s","/">>
s_downloading == <<"D","o","w","n","l","o","a","d","i","n","g"," ","N","e","x","t","C","l","a","d","e"," ","d","a","t","a","b","a","s","e"," ">>
s_running_command == <<"R","u","n","n","i","n","g"," ","c","o","m","m","a","n","d",":"," ">>
s_executing == <<"E","x","e","c","u","t","i","n","g"," ","N","e","x","t","C","l","a","d","e"," ","f","o","r"," ">>
s_error_title == <<"A","n"," ","e","r","r","o","r"," ","w","a","s"," ","r","a","i","s","e","d"," ","w","h","i","l","e"," ","r","u","n","n","i","n","g"," ","N","e","x","t","C","l","a","d","e"," ","f","o","r"," ">>
s_Message == <<"M","e","s","s","a","g","e">>

(* ---- class Database(Enum): the values of the members ---- *)
sars_cov_2 == <<"s","a","r","s","-","c","o","v","-","2">>
MPXV == <<"M","P","X","V">>
hMPXV == <<"h","M","P","X","V">>
hMPXV_B1 == <<"h","M","P","X","V","_","B","1">>
flu_h1n1pdm_ha == <<"f","l","u","_","h","1","n","1","p","d","m","_","h","a">>
flu_h3n2_ha == <<"f","l","u","_","h","3","n","2","_","h","a">>
flu_vic_ha == <<"f","l","u","_","v","i","c","_","h","a">>
flu_yam_ha == <<"f","l","u","_","y","a","m","_","h","a">>
Database == {sars_cov_2, MPXV, hMPXV, hMPXV_B1, flu_h1n1pdm_ha, flu_h3n2_ha,
             flu_vic_ha, flu_yam_ha}

(* ---- records of the data model ---- *)
LatchFile(local, remote) == [local_path |-> local, remote_path |-> remote]
LatchDir(local, remote) == [local_path |-> local, remote_path |-> remote]
Sample(name, fasta) == [name |-> name, fasta |-> fasta]
NextcladeInput(name, fasta, db) == [name |-> name, fasta |-> fasta, database |-> db]
message(type, title, body) == [type |-> type, title |-> title, body |-> body]

(* ---- text helpers: str.join, str.split ---- *)
RECURSIVE Join(_, _)
Join(parts, sep) ==
    IF parts = <<>> THEN <<>>
    ELSE IF Len(parts) = 1 THEN parts[1]
    ELSE parts[1] \o sep \o Join(Tail(parts), sep)

RECURSIVE SplitFrom(_, _, _, _)
SplitFrom(s, c, done, cur) ==
    IF s = <<>> THEN Append(done, cur)
    ELSE IF Head(s) = c THEN SplitFrom(Tail(s), c, Append(done, cur), <<>>)
    ELSE SplitFrom(Tail(s), c, done, Append(cur, Head(s)))

Split(s, c) == SplitFrom(s, c, <<>>, <<>>)

(* ---- Path(p).resolve() on a POSIX file system without symbolic links ---- *)
cwd == <<"/","r","o","o","t">>
Components(p) == SelectSeq(Split(p, "/"), LAMBDA x : x # <<>> /\ x # <<".">>)

RECURSIVE Normalize(_, _)
Normalize(done, todo) ==
    IF todo = <<>> THEN done
    ELSE IF Head(todo) = <<".", ".">>
         THEN Normalize(IF done = <<>> THEN <<>> ELSE SubSeq(done, 1, Len(done) - 1),
                        Tail(todo))
         ELSE Normalize(Append(done, Head(todo)), Tail(todo))

resolve(p) ==
    LET parts == IF p # <<>> /\ p[1] = "/" THEN Components(p)
                 ELSE Components(cwd) \o Components(p)
    IN  <<"/">> \o Join(Normalize(<<>>, parts), <<"/">>)

(* ---- iteration over process.stdout, a text stream with universal newlines: ---- *)
(* ---- a line ends at "\n", at "\r\n" or at a lone "\r", and is handed over    ---- *)
(* ---- with its terminator translated to "\n"                                  ---- *)
IsTerminator(c) == c = NL \/ c = CR

\* The number of raw characters of the first line of s, terminator included.
LineEnd(s) ==
    IF \E i \in 1..Len(s) : IsTerminator(s[i])
    THEN LET i == CHOOSE k \in 1..Len(s) :
                      IsTerminator(s[k]) /\ \A j \in 1..(k - 1) : ~IsTerminator(s[j])
         IN  IF s[i] = CR /\ i < Len(s) /\ s[i + 1] = NL THEN i + 1 ELSE i
    ELSE Len(s)

\* The first line of s as the reader returns it.
FirstLine(s) ==
    LET raw == SubSeq(s, 1, LineEnd(s))
        body == SelectSeq(raw, LAMBDA c : ~IsTerminator(c))
    IN  IF IsTerminator(raw[Len(raw)]) THEN Append(body, NL) ELSE body

RECURSIVE ReadLines(_)
ReadLines(s) ==
    IF s = <<>> THEN <<>>
    ELSE <<FirstLine(s)>> \o ReadLines(SubSeq(s, LineEnd(s) + 1, Len(s)))

(* ---- _capture_output: (returncode, "\n".join(captured_stdout)), or the ---- *)
(* ---- UnicodeDecodeError of the text layer when a read meets BadByte    ---- *)
Decodable(stream) == \A i \in 1..Len(stream) : stream[i] # BadByte

_capture_output(stream, returncode) ==
    IF Decodable(stream)
    THEN [raised |-> "none", ret |-> <<returncode, Join(ReadLines(stream), <<NL>>)>>]
    ELSE [raised |-> "UnicodeDecodeError", ret |-> <<>>]

(* ---- re.findall("Message.*", text) ---- *)
MatchesAt(text, i) ==
    /\ i + Len(s_Message) - 1 <= Len(text)
    /\ SubSeq(text, i, i + Len(s_Message) - 1) = s_Message

\* ".*": the characters up to, and without, the next "\n" ("." matches "\r").
\* The index of the last character of the match that starts at i.
DotStarEnd(text, i) ==
    IF \E k \in i..Len(text) : text[k] = NL
    THEN (CHOOSE k \in i..Len(text) :
              text[k] = NL /\ \A j \in i..(k - 1) : text[j] # NL) - 1
    ELSE Len(text)

RECURSIVE re_findall_Message(_)
re_findall_Message(text) ==
    IF \E i \in 1..Len(text) : MatchesAt(text, i)
    THEN LET i == CHOOSE k \in 1..Len(text) :
                      MatchesAt(text, k) /\ \A j \in 1..(k - 1) : ~MatchesAt(text, j)
             e == DotStarEnd(text, i + Len(s_Message))
         IN  <<SubSeq(text, i, e)>> \o re_findall_Message(SubSeq(text, e + 1, Len(text)))
    ELSE <<>>

(* ---- get_database ---- *)
get_database_cmd(name) ==
    <<s_nextclade, s_dataset, s_get, s_name_flag, name, s_output_dir_flag,
      s_database_prefix \o name>>

\* subprocess.run(_nextclade_cmd) is called without check=True and its
\* CompletedProcess is dropped: the exit code plays no part in the result.
get_database(name, returncode) ==
    LET database_outname == s_database_prefix \o name
        database_outdir == resolve(database_outname)
        cmd == get_database_cmd(name)
    IN  [messages |-> <<message("info", s_downloading \o name,
                                s_running_command \o Join(cmd, <<>>))>>,
         raised |-> "none",
         ret |-> <<LatchDir(database_outdir, s_latch_root \o database_outname \o <<"/">>)>>]

(* ---- prepare_nextclade_inputs ---- *)
prepare_nextclade_inputs_dropping_last(ss, db) ==
    [i \in 1..(Len(ss) - 1) |-> NextcladeInput(ss[i].name, ss[i].fasta, db)]

prepare_nextclade_inputs(ss, db) ==
    [i \in 1..Len(ss) |-> NextcladeInput(ss[i].name, ss[i].fasta, db)]

(* ---- run_nextclade ---- *)
remote_path_without_name(output_dirname) == s_outputs_prefix

remote_path(output_dirname) == s_outputs_prefix \o output_dirname

run_nextclade_cmd(nc_input) ==
    <<s_nextclade, s_run, s_input_dataset_flag, nc_input.database.local_path,
      s_output_all_flag, nc_input.name, nc_input.fasta.local_path>>

info_message(nc_input) ==
    message("info", s_executing \o nc_input.name, Join(run_nextclade_cmd(nc_input), <<" ">>))

error_message(nc_input, error) ==
    message("error", s_error_title \o nc_input.name \o <<":">>, error)

\* The branch taken on return_code != 0.  stdout is the text returned by
\* _capture_output, so stdout[1] is its second character: an IndexError when
\* the text is shorter, otherwise a one-character text for re.findall.
error_branch(nc_input, stdout) ==
    IF Len(stdout) < 2
    THEN [messages |-> <<>>, raised |-> "IndexError"]
    ELSE LET errors == re_findall_Message(<<stdout[2]>>)
         IN  [messages |-> [i \in 1..Len(errors) |-> error_message(nc_input, errors[i])],
              raised |-> "RuntimeError"]

\* The exception of _capture_output (line 157) leaves run_nextclade before the
\* message of line 161 and before the exit code is looked at.
run_nextclade(nc_input, stream, returncode) ==
    LET captured == _capture_output(stream, returncode)
    IN  IF captured.raised # "none"
        THEN [cmd |-> run_nextclade_cmd(nc_input),
              messages |-> <<>>,
              raised |-> captured.raised,
              ret |-> <<>>]
        ELSE IF captured.ret[1] # 0
        THEN LET e == error_branch(nc_input, captured.ret[2])
             IN  [cmd |-> run_nextclade_cmd(nc_input),
                  messages |-> <<info_message(nc_input)>> \o e.messages,
                  raised |-> e.raised,
                  ret |-> <<>>]
        ELSE [cmd |-> run_nextclade_cmd(nc_input),
              messages |-> <<info_message(nc_input)>>,
              raised |-> "none",
              ret |-> <<LatchDir(resolve(nc_input.name), remote_path(nc_input.name))>>]

(* ---- inputs of the model ---- *)
fasta_1 == LatchFile(<<"/", "1">>, <<"s", "3", ":", "1">>)
fasta_2 == LatchFile(<<"/", "2">>, <<"s", "3", ":", "2">>)
name_a == <<"a">>
name_dot_a == <<".", "/", "a">>
SampleSet == {Sample(name_a, fasta_1), Sample(name_dot_a, fasta_2)}

RECURSIVE ListsOfLen(_, _)
ListsOfLen(S, n) ==
    IF n = 0 THEN {<<>>}
    ELSE {Append(l, x) : l \in ListsOfLen(S, n - 1), x \in S}

ListsUpTo(S, n) == UNION {ListsOfLen(S, k) : k \in 0..n}

SampleLists == ListsUpTo(SampleSet, MaxSamples)

\* Exit codes of the external process: success, failure, killed by a signal.
ExitCodes == {0, 1, -9}

\* Output streams of the external process: concatenations of a few chunks.
chunk_message == <<"M","e","s","s","a","g","e",":"," ","b","a","d","\n">>
chunk_message_eof == <<"M","e","s","s","a","g","e",":"," ","e","o","f">>
chunk_ok == <<"o","k","\n">>
Chunks == {chunk_message, chunk_message_eof, chunk_ok, <<"x">>, <<NL>>, <<CR>>, <<BadByte>>}

RECURSIVE Flatten(_)
Flatten(l) == IF l = <<>> THEN <<>> ELSE Head(l) \o Flatten(Tail(l))

StreamsUpTo(n) == {Flatten(l) : l \in ListsUpTo(Chunks, n)}
Streams == StreamsUpTo(MaxChunks)
ShortStreams == {<<>>, chunk_ok, chunk_message, <<BadByte>>}

DatabaseInputs == {sars_cov_2, MPXV}
DatabaseDirs == {get_database(d, 0).ret[1] : d \in Database}
NextcladeInputs ==
    {NextcladeInput(s.name, s.fasta, db) : s \in SampleSet, db \in DatabaseDirs}

(* ---- the specification of single calls ---- *)
NoCall == [fn |-> "none"]

InitCall ==
    /\ samples = <<>>
    /\ database_name = sars_cov_2
    /\ pc = "start"
    /\ db_runs = 0
    /\ database = <<>>
    /\ nextclade_inputs = <<>>
    /\ tasks = <<>>
    /\ outputs = <<>>
    /\ call = NoCall

CallCaptureOutput ==
    /\ call = NoCall
    /\ \E stream \in Streams, rc \in ExitCodes :
          call' = [fn |-> "_capture_output", stream |-> stream, returncode |-> rc,
                   out |-> _capture_output(stream, rc)]
    /\ UNCHANGED wfvars

CallRunNextclade ==
    /\ call = NoCall
    /\ \E nc \in NextcladeInputs, stream \in Streams, rc \in ExitCodes :
          call' = [fn |-> "run_nextclade", nc_input |-> nc, stream |-> stream,
                   returncode |-> rc, out |-> run_nextclade(nc, stream, rc)]
    /\ UNCHANGED wfvars

CallGetDatabase ==
    /\ call = NoCall
    /\ \E d \in Database, rc \in ExitCodes :
          call' = [fn |-> "get_database", database_name |-> d, returncode |-> rc,
                   out |-> get_database(d, rc)]
    /\ UNCHANGED wfvars

CallPrepareNextcladeInputs ==
    /\ call = NoCall
    /\ \E ss \in SampleLists, db \in DatabaseDirs :
          call' = [fn |-> "prepare_nextclade_inputs", samples |-> ss, database |-> db,
                   ret |-> prepare_nextclade_inputs(ss, db)]
    /\ UNCHANGED wfvars

NextCall ==
    \/ CallCaptureOutput
    \/ CallRunNextclade
    \/ CallGetDatabase
    \/ CallPrepareNextcladeInputs

CallSpec == InitCall /\ [][NextCall]_vars

(* ---- the workflow nextclade: get_database, then prepare_nextclade_inputs, ---- *)
(* ---- then map_task(run_nextclade) over the prepared inputs               ---- *)
QueuedTask == [status |-> "queued", attempts |-> 0, cmd |-> <<>>, ret |-> <<>>]

Init ==
    /\ samples \in SampleLists
    /\ database_name \in DatabaseInputs
    /\ pc = "start"
    /\ db_runs = 0
    /\ database = <<>>
    /\ nextclade_inputs = <<>>
    /\ tasks = <<>>
    /\ outputs = <<>>
    /\ call = NoCall

GetDatabaseRepeatable ==
    /\ pc = "start"
    /\ db_runs < 2
    /\ \E rc \in ExitCodes, next \in {"start", "prepare"} :
          /\ database' = get_database(database_name, rc).ret
          /\ pc' = next
    /\ db_runs' = db_runs + 1
    /\ UNCHANGED <<samples, database_name, nextclade_inputs, tasks, outputs, call>>

GetDatabase ==
    /\ pc = "start"
    /\ \E rc \in ExitCodes :
          database' = get_database(database_name, rc).ret
    /\ db_runs' = db_runs + 1
    /\ pc' = "prepare"
    /\ UNCHANGED <<samples, database_name, nextclade_inputs, tasks, outputs, call>>

PrepareNextcladeInputs ==
    /\ pc = "prepare"
    /\ nextclade_inputs' = prepare_nextclade_inputs(samples, database[1])
    /\ tasks' = [i \in 1..Len(nextclade_inputs') |-> QueuedTask]
    /\ pc' = "map"
    /\ UNCHANGED <<samples, database_name, db_runs, database, outputs, call>>

\* An attempt of the mapped task on element i begins: run_nextclade builds its
\* command and spawns the process (lines 143-157), then blocks on its output.
StartRunNextclade(i) ==
    /\ pc = "map"
    /\ tasks[i].status = "queued"
    /\ tasks' = [tasks EXCEPT ![i] =
                    [status |-> "running",
                     attempts |-> @.attempts + 1,
                     cmd |-> run_nextclade_cmd(nextclade_inputs[i]),
                     ret |-> <<>>]]
    /\ UNCHANGED <<samples, database_name, pc, db_runs, database, nextclade_inputs,
                   outputs, call>>

\* The process has closed its output and exited with one of the given codes
\* (the code sets no timeout, so this is up to the process); run_nextclade then
\* runs to its end: it returns or raises (lines 157-181).
EndRunNextcladeWith(i, codes) ==
    /\ pc = "map"
    /\ tasks[i].status = "running"
    /\ \E stream \in ShortStreams, rc \in codes :
          LET r == run_nextclade(nextclade_inputs[i], stream, rc)
          IN  tasks' = [tasks EXCEPT ![i] =
                          [status |-> IF r.raised = "none" THEN "succeeded" ELSE "errored",
                           attempts |-> @.attempts,
                           cmd |-> r.cmd,
                           ret |-> r.ret]]
    /\ UNCHANGED <<samples, database_name, pc, db_runs, database, nextclade_inputs,
                   outputs, call>>

EndRunNextclade(i) == EndRunNextcladeWith(i, ExitCodes)

EndRunNextcladeExitZero(i) == EndRunNextcladeWith(i, {0})

\* task(..., retries=3): an attempt that ended with an error may be attempted
\* again while fewer than `retries` retries have been made.
MayRetryUnbounded(t) == t.status = "errored" /\ t.attempts <= retries + 2

MayRetry(t) == t.status = "errored" /\ t.attempts <= retries

PlatformRetry(i) ==
    /\ pc = "map"
    /\ MayRetry(tasks[i])
    /\ tasks' = [tasks EXCEPT ![i].status = "queued"]
    /\ UNCHANGED <<samples, database_name, pc, db_runs, database, nextclade_inputs,
                   outputs, call>>

\* The platform gives up on an errored task: at the latest when no retry is left.
PlatformFail(i) ==
    /\ pc = "map"
    /\ tasks[i].status = "errored"
    /\ tasks' = [tasks EXCEPT ![i].status = "failed"]
    /\ UNCHANGED <<samples, database_name, pc, db_runs, database, nextclade_inputs,
                   outputs, call>>

\* map_task returns the list of the elements' results, in the order of the inputs.
map_task_outputs(ts) == [i \in 1..Len(ts) |-> ts[i].ret[1]]

WorkflowReturn ==
    /\ pc = "map"
    /\ \A i \in 1..Len(tasks) : tasks[i].status = "succeeded"
    /\ outputs' = map_task_outputs(tasks)
    /\ pc' = "done"
    /\ UNCHANGED <<samples, database_name, db_runs, database, nextclade_inputs, tasks, call>>

WorkflowFail ==
    /\ pc = "map"
    /\ \A i \in 1..Len(tasks) : tasks[i].status \in {"succeeded", "failed"}
    /\ \E i \in 1..Len(tasks) : tasks[i].status = "failed"
    /\ pc' = "failed"
    /\ UNCHANGED <<samples, database_name, db_runs, database, nextclade_inputs, tasks,
                   outputs, call>>

Next ==
    \/ GetDatabase
    \/ PrepareNextcladeInputs
    \/ \E i \in 1..Len(tasks) : StartRunNextclade(i)
    \/ \E i \in 1..Len(tasks) : EndRunNextclade(i)
    \/ \E i \in 1..Len(tasks) : PlatformRetry(i)
    \/ \E i \in 1..Len(tasks) : PlatformFail(i)
    \/ WorkflowReturn
    \/ WorkflowFail

Spec == Init /\ [][Next]_vars

\* What the code and the platform do by themselves: every step but the exit of
\* an external process, which nothing in the code forces (no timeout).
Scheduled ==
    \/ PrepareNextcladeInputs
    \/ \E i \in 1..Len(tasks) : StartRunNextclade(i)
    \/ \E i \in 1..Len(tasks) : PlatformRetry(i)
    \/ \E i \in 1..Len(tasks) : PlatformFail(i)
    \/ WorkflowReturn
    \/ WorkflowFail

\* The workflow launched with the default database_name of line 186.
InitDefault == Init /\ database_name = sars_cov_2

FairSpec == InitDefault /\ [][Next]_vars /\ WF_vars(Scheduled)

\* The workflow runs in which every nextclade run exits with code 0.
NextExitZero ==
    \/ GetDatabase
    \/ PrepareNextcladeInputs
    \/ \E i \in 1..Len(tasks) : StartRunNextclade(i)
    \/ \E i \in 1..Len(tasks) : EndRunNextcladeExitZero(i)
    \/ \E i \in 1..Len(tasks) : PlatformRetry(i)
    \/ \E i \in 1..Len(tasks) : PlatformFail(i)
    \/ WorkflowReturn
    \/ WorkflowFail

ExitZeroSpec == Init /\ [][NextExitZero]_vars

(* ======================= the claims ======================= *)
Exists(i) == i \in 1..Len(tasks)
Attempted(i) == tasks[i].attempts > 0
Terminated(i) == tasks[i].status \in {"succeeded", "failed"}
Running(i) == Exists(i) /\ tasks[i].status = "running"
Ended(i) == Exists(i) /\ Terminated(i)
ErrorBodies(msgs) ==
    LET errs == SelectSeq(msgs, LAMBDA m : m.type = "error")
    IN  [i \in 1..Len(errs) |-> errs[i].body]

\* C1 (as claimed): run_nextclade returns a directory reference (local path
\* the resolved sample name, remote path latch:///nextclade_outputs/<name>)
\* when the tool exits with code 0, and raises without returning one on any
\* other exit code.
C1_ExitCodeDecidesResult ==
    call.fn = "run_nextclade" =>
        /\ call.returncode = 0 =>
              /\ call.out.raised = "none"
              /\ Len(call.out.ret) = 1
              /\ call.out.ret[1].local_path = resolve(call.nc_input.name)
              /\ call.out.ret[1].remote_path = s_outputs_prefix \o call.nc_input.name
        /\ call.returncode # 0 =>
              /\ call.out.raised # "none"
              /\ call.out.ret = <<>>

\* C2 (as claimed): on a non-zero exit code run_nextclade emits one "error"
\* message per "Message..." line of the whole captured output, in order.
C2_OneErrorMessagePerMessageLine ==
    (call.fn = "run_nextclade" /\ call.returncode # 0 /\ Decodable(call.stream)) =>
        ErrorBodies(call.out.messages)
            = re_findall_Message(_capture_output(call.stream, call.returncode).ret[2])

\* C3 (as claimed): whatever the captured output, a non-zero exit code ends
\* run_nextclade with the RuntimeError of the error branch and nothing else.
C3_OnlyRuntimeErrorEscapes ==
    (call.fn = "run_nextclade" /\ call.returncode # 0) =>
        call.out.raised = "RuntimeError"

\* C4 (as claimed): get_database raises and returns no directory reference when
\* the download exits with a non-zero code; a reference is returned only on 0.
C4_DatabaseOnlyOnExitZero ==
    call.fn = "get_database" =>
        /\ call.returncode # 0 => (call.out.raised # "none" /\ call.out.ret = <<>>)
        /\ call.out.ret # <<>> => call.returncode = 0

\* C8 (as claimed): _capture_output returns the exit code and a text equal to
\* the stream the process emitted, with no character added.
C8_CapturedTextEqualsStream ==
    call.fn = "_capture_output" =>
        /\ call.out.raised = "none"
        /\ call.out.ret = <<call.returncode, call.stream>>

\* C9: prepare_nextclade_inputs returns one element per sample, in order, with
\* the sample's name and fasta and the given database; empty in, empty out.
C9_PrepareIsPointwise ==
    call.fn = "prepare_nextclade_inputs" =>
        /\ Len(call.ret) = Len(call.samples)
        /\ \A i \in 1..Len(call.samples) :
              /\ call.ret[i].name = call.samples[i].name
              /\ call.ret[i].fasta = call.samples[i].fasta
              /\ call.ret[i].database = call.database
        /\ call.samples = <<>> => call.ret = <<>>

C9_Witness ==
    /\ call.fn = "prepare_nextclade_inputs"
    /\ Len(call.samples) = MaxSamples
    /\ call.samples[1] # call.samples[2]
    /\ Len(call.ret) = MaxSamples

\* C5 (as claimed, for the workflow runs in which every nextclade run exits
\* with code 0): the workflow returns one directory reference per sample, the
\* i-th being the output directory of the i-th sample; the prepared inputs and
\* the mapped tasks keep the samples' number and order.
C5_OneOutputPerSampleInOrder ==
    /\ pc \in {"map", "done", "failed"} =>
          /\ Len(nextclade_inputs) = Len(samples)
          /\ Len(tasks) = Len(samples)
          /\ \A i \in 1..Len(samples) : nextclade_inputs[i].name = samples[i].name
    /\ pc \in {"done", "failed"} =>
          /\ pc = "done"
          /\ Len(outputs) = Len(samples)
          /\ \A i \in 1..Len(samples) :
                /\ outputs[i].remote_path = s_outputs_prefix \o samples[i].name
                /\ outputs[i].local_path = resolve(samples[i].name)

\* C6: get_database runs exactly once and before everything else; a
\* run_nextclade attempt exists only after get_database and
\* prepare_nextclade_inputs have finished, and its command uses the database
\* directory that the one get_database run returned.
C6_FetchThenFanOutThenMap ==
    /\ db_runs <= 1
    /\ pc # "start" => (db_runs = 1 /\ Len(database) = 1)
    /\ \A i \in 1..Len(tasks) :
          /\ pc \in {"map", "done", "failed"}
          /\ nextclade_inputs[i].database = database[1]
          /\ Attempted(i) => tasks[i].cmd[4] = database[1].local_path
    /\ Len(database) = 1 =>
          database[1].remote_path
              = s_latch_root \o s_database_prefix \o database_name \o <<"/">>

C6_Witness ==
    /\ Len(tasks) = MaxSamples
    /\ \A i \in 1..Len(tasks) : Attempted(i)
    /\ database_name = MPXV
    /\ db_runs = 1

\* C7 (as claimed): a run_nextclade task is attempted at most retries + 1 = 4
\* times; a succeeded or failed task is never attempted again; an errored task
\* that has used its last retry can only become failed; every task eventually
\* ends succeeded or failed.
C7_BoundedRetriesAndTermination ==
    /\ [](\A i \in 1..Len(tasks) : tasks[i].attempts <= retries + 1)
    /\ [][\A i \in 1..Len(tasks) : Terminated(i) => tasks'[i] = tasks[i]]_vars
    /\ [][\A i \in 1..Len(tasks) :
            (tasks[i].status = "errored" /\ tasks[i].attempts = retries + 1
                /\ tasks'[i] # tasks[i])
            => tasks'[i].status = "failed"]_vars
    /\ \A i \in 1..MaxSamples : [](Exists(i) => <>Ended(i))

\* C7 (amended): the same bounds on the attempts; and every task none of whose
\* nextclade processes runs forever eventually ends succeeded or failed.
C7_BoundedRetriesAndTerminationIfProcessesExit ==
    /\ [](\A i \in 1..Len(tasks) : tasks[i].attempts <= retries + 1)
    /\ [][\A i \in 1..Len(tasks) : Terminated(i) => tasks'[i] = tasks[i]]_vars
    /\ [][\A i \in 1..Len(tasks) :
            (tasks[i].status = "errored" /\ tasks[i].attempts = retries + 1
                /\ tasks'[i] # tasks[i])
            => tasks'[i].status = "failed"]_vars
    /\ \A i \in 1..MaxSamples :
          \/ <>[]Running(i)
          \/ [](Exists(i) => <>Ended(i))

C7_Witness ==
    /\ Len(tasks) = MaxSamples
    /\ tasks[1].status = "failed"
    /\ tasks[1].attempts = retries + 1
    /\ tasks[2].status = "running"
    /\ tasks[2].attempts = 2

\* C10 (as claimed): any two distinct positions of the sample list get distinct
\* output directory names and distinct remote paths.
C10_DistinctPositionsDistinctDirs ==
    \A i, j \in 1..Len(tasks) :
        i # j =>
            /\ (Attempted(i) /\ Attempted(j)) => tasks[i].cmd[6] # tasks[j].cmd[6]
            /\ (tasks[i].ret # <<>> /\ tasks[j].ret # <<>>) =>
                  tasks[i].ret[1].remote_path # tasks[j].ret[1].remote_path

\* C10 (amended): two positions whose sample names differ get distinct output
\* directory names and distinct remote paths, in every interleaving; two
\* positions with the same name get the same ones.
C10_DistinctNamesDistinctDirs ==
    \A i, j \in 1..Len(tasks) :
        /\ (Attempted(i) /\ Attempted(j)) =>
              (tasks[i].cmd[6] = tasks[j].cmd[6] <=> samples[i].name = samples[j].name)
        /\ (tasks[i].ret # <<>> /\ tasks[j].ret # <<>>) =>
              (tasks[i].ret[1].remote_path = tasks[j].ret[1].remote_path
                  <=> samples[i].name = samples[j].name)

C10_Witness ==
    /\ Len(tasks) = MaxSamples
    /\ samples[1].name # samples[2].name
    /\ tasks[1].status = "running"
    /\ tasks[2].status = "succeeded"
    /\ resolve(tasks[1].cmd[6]) = tasks[2].ret[1].local_path
====
